---- MODULE Spec2Model ----
(***************************************************************************)
(* A model of GoogleTrends.py: the GoogleTrends session class, a thin      *)
(* wrapper over the pytrends client.  The client is external: every call   *)
(* into it either raises one of Errors or returns a reply drawn from a     *)
(* small set.  Tables (pandas DataFrames) are modelled as                  *)
(*   [index |-> row keys, columns |-> column names, data |-> columns]      *)
(* with data[j] the cells of column j, one per row.  Python strings that   *)
(* the code takes apart are sequences of one-character strings.            *)
(***************************************************************************)
EXTENDS Integers, Sequences, FiniteSets, TLC

VARIABLES
    pc,       \* "new" before construction, "live" with a session, "failed"
    given,    \* the arguments the constructor was called with
    self,     \* the session object's attributes
    last      \* the last operation: its arguments, the client's replies,
              \* the client calls it issued, what it printed, its result

vars == <<pc, given, self, last>>

----------------------------------------------------------------------------
(* Bounds of the model *)

\* rows of a raw interest / region / trending / chart table
MaxRows == 2
\* rows of a "top" or "rising" table of related topics / queries
MaxRelated == 2
\* records in a suggestions reply
MaxRecords == 2

----------------------------------------------------------------------------
(* Sequences *)

Range(s) == {s[i] : i \in 1..Len(s)}

\* the positions of s holding x
Positions(s, x) == {i \in 1..Len(s) : s[i] = x}

\* s without the entries at the positions in P, order kept
RECURSIVE Without(_, _)
Without(s, P) ==
    IF s = <<>> THEN <<>>
    ELSE LET n == Len(s)
             init == Without(SubSeq(s, 1, n - 1), P)
         IN  IF n \in P THEN init ELSE Append(init, s[n])

\* the injective sequences of length n over S
RECURSIVE InjSeqs(_, _)
InjSeqs(S, n) ==
    IF n = 0 THEN {<<>>}
    ELSE UNION {{Append(s, x) : x \in S \ Range(s)} : s \in InjSeqs(S, n - 1)}

----------------------------------------------------------------------------
(* Python str: replace, strip, split, int *)

Space == " "

Digits == <<"0", "1", "2", "3", "4", "5", "6", "7", "8", "9">>

\* str.replace(old, new) for one-character old and new
StrReplace(s, old, new) ==
    [i \in 1..Len(s) |-> IF s[i] = old THEN new ELSE s[i]]

\* str.strip(): leading and trailing whitespace removed
RECURSIVE StrStrip(_)
StrStrip(s) ==
    IF s = <<>> THEN <<>>
    ELSE IF Head(s) = Space THEN StrStrip(Tail(s))
    ELSE IF s[Len(s)] = Space THEN StrStrip(SubSeq(s, 1, Len(s) - 1))
    ELSE s

\* str.split() with no separator: the maximal runs of non-whitespace
RECURSIVE StrSplitFrom(_, _, _)
StrSplitFrom(s, cur, acc) ==
    IF s = <<>> THEN (IF cur = <<>> THEN acc ELSE Append(acc, cur))
    ELSE IF Head(s) = Space
         THEN StrSplitFrom(Tail(s), <<>>, IF cur = <<>> THEN acc ELSE Append(acc, cur))
         ELSE StrSplitFrom(Tail(s), Append(cur, Head(s)), acc)

StrSplit(s) == StrSplitFrom(s, <<>>, <<>>)

IsDigit(c) == c \in Range(Digits)

DigitValue(c) == (CHOOSE i \in 1..Len(Digits) : Digits[i] = c) - 1

\* int(str) accepts a non-empty run of decimal digits (the tokens here carry
\* no sign and no whitespace); anything else is a ValueError
IntParses(tok) == tok # <<>> /\ \A i \in 1..Len(tok) : IsDigit(tok[i])

RECURSIVE DecimalValue(_)
DecimalValue(tok) ==
    IF tok = <<>> THEN 0
    ELSE 10 * DecimalValue(SubSeq(tok, 1, Len(tok) - 1)) + DigitValue(tok[Len(tok)])

PyInt(tok) == DecimalValue(tok)

\* the fields read as if the date were written DD-MM-YYYY
DateFieldsDayFirst(date) ==
    LET f == StrSplit(StrStrip(StrReplace(date, "-", Space)))
    IN  [i \in 1..Len(f) |-> f[Len(f) + 1 - i]]

\* start_date.replace('-', ' ').strip().split()
DateFields(date) == StrSplit(StrStrip(StrReplace(date, "-", Space)))

\* the unpacking "y, m, d = ..." and the three int() calls succeed
DateParses(date) ==
    LET f == DateFields(date)
    IN  Len(f) = 3 /\ \A i \in 1..3 : IntParses(f[i])

----------------------------------------------------------------------------
(* pandas DataFrame *)

\* a missing cell
NaN == -1

Frame(index, columns, data) == [index |-> index, columns |-> columns, data |-> data]

\* pd.DataFrame(): no rows, no columns
EmptyFrame == Frame(<<>>, <<>>, <<>>)

NRows(df) == Len(df.index)

\* DataFrame.empty: some axis has length 0
IsEmpty(df) == Len(df.index) = 0 \/ Len(df.columns) = 0

RangeIndex(n) == [i \in 1..n |-> i - 1]

\* the cells of column `name` (the first of that name)
Column(df, name) == df.data[CHOOSE j \in Positions(df.columns, name) :
                               \A k \in Positions(df.columns, name) : j <= k]

\* Index.to_frame(index=True): one column holding the index, indexed by it
IndexToFrame(index) == Frame(index, <<"0">>, <<index>>)

\* the order-preserving union of two indexes
IndexUnion(a, b) == a \o Without(b, {i \in 1..Len(b) : b[i] \in Range(a)})

\* a column's cells re-read at the row keys `index`; NaN where df has no such row
ReindexColumn(df, cells, index) ==
    [i \in 1..Len(index) |->
        IF index[i] \in Range(df.index)
        THEN cells[CHOOSE r \in 1..Len(df.index) : df.index[r] = index[i]]
        ELSE NaN]

\* DataFrame.reindex(index)
Reindex(df, index) ==
    IF df.index = index THEN df
    ELSE Frame(index, df.columns,
               [j \in 1..Len(df.columns) |-> ReindexColumn(df, df.data[j], index)])

\* df[name] = value, value a one-column frame: the column is aligned on df's
\* index, then replaces the column called name or is appended as a new one
SetItemFrame(df, name, value) ==
    LET cells == Reindex(value, df.index).data[1]
    IN  IF name \in Range(df.columns)
        THEN Frame(df.index, df.columns,
                   [j \in 1..Len(df.columns) |->
                       IF df.columns[j] = name THEN cells ELSE df.data[j]])
        ELSE Frame(df.index, Append(df.columns, name), Append(df.data, cells))

\* DataFrame.reset_index(drop=True): the row keys are replaced by 0..n-1
ResetIndexDrop(df) == Frame(RangeIndex(NRows(df)), df.columns, df.data)

\* DataFrame.rename(columns=mapping): mapping is a set of <<old, new>>
RenameColumns(df, mapping) ==
    Frame(df.index,
          [j \in 1..Len(df.columns) |->
              IF \E m \in mapping : m[1] = df.columns[j]
              THEN (CHOOSE m \in mapping : m[1] = df.columns[j])[2]
              ELSE df.columns[j]],
          df.data)

\* side by side over the row keys the two tables share (join="inner")
ConcatColumnsInner(a, b) ==
    LET index == Without(a.index, {i \in 1..Len(a.index) : a.index[i] \notin Range(b.index)})
    IN  Frame(index, a.columns \o b.columns,
              Reindex(a, index).data \o Reindex(b, index).data)

\* pd.concat([a, b], axis=1): side by side over the union of the row keys
ConcatColumns(a, b) ==
    LET index == IndexUnion(a.index, b.index)
    IN  Frame(index, a.columns \o b.columns,
              Reindex(a, index).data \o Reindex(b, index).data)

\* DataFrame.drop(labels, axis=1) raises KeyError unless every label is a column
DropFails(df, labels) == \E l \in labels : l \notin Range(df.columns)

\* DataFrame.drop(labels, axis=1): every column with one of the labels goes
DropColumns(df, labels) ==
    LET P == {j \in 1..Len(df.columns) : df.columns[j] \in labels}
    IN  Frame(df.index, Without(df.columns, P), Without(df.data, P))

\* check_if_valid_data: FALSE, with a notice printed, for an empty table
EmptyNotice == "Google trends has returned no results."

check_if_valid_data(df) == ~IsEmpty(df)

----------------------------------------------------------------------------
(* What an operation hands back, and what the client answers *)

Table(df) == [kind |-> "table", table |-> df]
\* a method that falls off its end returns None
NoResult == [kind |-> "none"]
Raise(e) == [kind |-> "raise", err |-> e]
Passthrough(v) == [kind |-> "value", value |-> v]

\* a client call that returned v / that raised e
Returned(v) == [ok |-> TRUE, value |-> v]
Failed(e) == [ok |-> FALSE, err |-> e]

\* the effect of one operation: the session's attributes after it, the client
\* calls it issued, the lines it printed, and what the caller gets
Outcome(obj, calls, out, result) ==
    [obj |-> obj, calls |-> calls, out |-> out, result |-> result]

\* the parameters of TrendReq(host_language, tz=360, retries=2, timeout=(10,25))
ClientTz == 360
ClientRetries == 2
ClientConnectTimeout == 10
ClientReadTimeout == 25

\* sleep = 0 in the historical request
HistoricalSleep == 0

\* the default of the category parameter
DefaultCategory == 0

\* the defaults of hour_start and hour_end
DefaultHourStart == 0
DefaultHourEnd == 1

----------------------------------------------------------------------------
(* class GoogleTrends *)

\* __init__: the attributes are stored, the client is created, the payload built
Construct(keyword_list, timeframe, geo, host_language, category, gprop, connected, built) ==
    LET obj == [keyword_list |-> keyword_list, timeframe |-> timeframe,
                geo |-> geo, host_language |-> host_language,
                gprop |-> gprop, category |-> category]
        connect == [method |-> "TrendReq", hl |-> host_language, tz |-> ClientTz,
                    retries |-> ClientRetries,
                    timeout |-> <<ClientConnectTimeout, ClientReadTimeout>>]
        build == [method |-> "build_payload", kw_list |-> keyword_list,
                  cat |-> obj.category, timeframe |-> obj.timeframe,
                  geo |-> obj.geo, gprop |-> obj.gprop]
    IN  IF ~connected.ok
        THEN Outcome(obj, <<connect>>, <<>>, Raise(connected.err))
        ELSE IF ~built.ok
        THEN Outcome(obj, <<connect, build>>, <<>>, Raise(built.err))
        ELSE Outcome(obj, <<connect, build>>, <<>>, NoResult)

\* the rows are renumbered first, so the column holds 0..n-1
PromoteIndexAfterReset(df, name) ==
    LET renumbered == ResetIndexDrop(df)
    IN  SetItemFrame(renumbered, name, IndexToFrame(renumbered.index))

\* the index becomes the column `name`, the rows are renumbered
PromoteIndex(df, name) ==
    ResetIndexDrop(SetItemFrame(df, name, IndexToFrame(df.index)))

interestOverTime(obj, reply) ==
    LET calls == <<[method |-> "interest_over_time"]>>
    IN  IF ~reply.ok THEN Outcome(obj, calls, <<>>, Raise(reply.err))
        ELSE IF check_if_valid_data(reply.value)
        THEN Outcome(obj, calls, <<>>, Table(PromoteIndex(reply.value, "datetime")))
        ELSE Outcome(obj, calls, <<EmptyNotice>>, NoResult)

\* hour_start and hour_end are integers, which int() returns as they are
historicalHourlyInterest(obj, start_date, end_date, hour_start, hour_end, fetched, reply) ==
    IF ~DateParses(start_date) \/ ~DateParses(end_date)
    THEN Outcome(obj, <<>>, <<>>, Raise("ValueError"))
    ELSE
    LET s == DateFields(start_date)
        e == DateFields(end_date)
        fetch == [method |-> "get_historical_interest",
                  keywords |-> obj.keyword_list,
                  year_start |-> PyInt(s[1]), month_start |-> PyInt(s[2]),
                  day_start |-> PyInt(s[3]), hour_start |-> hour_start,
                  year_end |-> PyInt(e[1]), month_end |-> PyInt(e[2]),
                  day_end |-> PyInt(e[3]), hour_end |-> hour_end,
                  cat |-> obj.category, geo |-> obj.geo, gprop |-> obj.gprop,
                  sleep |-> HistoricalSleep]
        calls == <<fetch, [method |-> "interest_over_time"]>>
    IN  IF ~fetched.ok THEN Outcome(obj, <<fetch>>, <<>>, Raise(fetched.err))
        ELSE IF ~reply.ok THEN Outcome(obj, calls, <<>>, Raise(reply.err))
        ELSE IF check_if_valid_data(reply.value)
        THEN Outcome(obj, calls, <<>>, Table(PromoteIndex(reply.value, "datetime")))
        ELSE Outcome(obj, calls, <<EmptyNotice>>, NoResult)

interestByRegion(obj, region, inc_low_vol, inc_geo_code, reply) ==
    LET calls == <<[method |-> "interest_by_region", resolution |-> region,
                    inc_low_vol |-> inc_low_vol, inc_geo_code |-> inc_geo_code]>>
    IN  IF ~reply.ok THEN Outcome(obj, calls, <<>>, Raise(reply.err))
        ELSE IF check_if_valid_data(reply.value)
        THEN Outcome(obj, calls, <<>>, Table(PromoteIndex(reply.value, "geoName")))
        ELSE Outcome(obj, calls, <<EmptyNotice>>, NoResult)

\* the columns relatedTopics renames, and the two it drops
TopicRisingNames ==
    {<<"value", "value_rising">>, <<"formattedValue", "formattedValue_rising">>,
     <<"hasData", "hasData_rising">>, <<"topic_title", "topic_title_rising">>,
     <<"topic_type", "topic_type_rising">>}

TopicTopNames ==
    {<<"value", "value_top">>, <<"formattedValue", "formattedValue_top">>,
     <<"hasData", "hasData_top">>, <<"topic_title", "topic_title_top">>,
     <<"topic_type", "topic_type_top">>}

TopicDropped == {"link", "topic_mid"}

TopicsNotice == "No results for Related topics"

\* the body of relatedTopics' try block; any exception in it prints the notice
ComposeTopics(obj, calls, rising, top) ==
    IF rising.kind # "table" \/ top.kind # "table"
    THEN Outcome(obj, calls, <<TopicsNotice>>, NoResult)
    ELSE LET rising_df == RenameColumns(rising.table, TopicRisingNames)
             top_df == RenameColumns(top.table, TopicTopNames)
             df == ConcatColumns(top_df, rising_df)
         IN  IF DropFails(df, TopicDropped)
             THEN Outcome(obj, calls, <<TopicsNotice>>, NoResult)
             ELSE Outcome(obj, calls, <<>>, Table(DropColumns(df, TopicDropped)))

\* the client call moved inside the try block: its failure is swallowed too
relatedTopicsCatchesClient(obj, reply) ==
    LET calls == <<[method |-> "related_topics"]>>
    IN  IF ~reply.ok THEN Outcome(obj, calls, <<TopicsNotice>>, NoResult)
        ELSE IF obj.keyword_list = <<>>
        THEN Outcome(obj, calls, <<>>, Raise("IndexError"))
        ELSE IF obj.keyword_list[1] \notin DOMAIN reply.value
        THEN Outcome(obj, calls, <<>>, Raise("KeyError"))
        ELSE LET found == reply.value[obj.keyword_list[1]]
             IN  IF "rising" \notin DOMAIN found \/ "top" \notin DOMAIN found
                 THEN Outcome(obj, calls, <<>>, Raise("KeyError"))
                 ELSE ComposeTopics(obj, calls, found["rising"], found["top"])

relatedTopics(obj, reply) ==
    LET calls == <<[method |-> "related_topics"]>>
    IN  IF ~reply.ok THEN Outcome(obj, calls, <<>>, Raise(reply.err))
        ELSE IF obj.keyword_list = <<>>
        THEN Outcome(obj, calls, <<>>, Raise("IndexError"))
        ELSE IF obj.keyword_list[1] \notin DOMAIN reply.value
        THEN Outcome(obj, calls, <<>>, Raise("KeyError"))
        ELSE LET found == reply.value[obj.keyword_list[1]]
             IN  IF "rising" \notin DOMAIN found \/ "top" \notin DOMAIN found
                 THEN Outcome(obj, calls, <<>>, Raise("KeyError"))
                 ELSE ComposeTopics(obj, calls, found["rising"], found["top"])

QueryRisingNames == {<<"query", "rising_query">>, <<"value", "rising_value">>}

QueryTopNames == {<<"query", "top_query">>, <<"value", "top_value">>}

QueriesNotice == "No results for Related queries"

\* the body of relatedQueries' try block
ComposeQueries(obj, calls, rising, top) ==
    IF rising.kind # "table" \/ top.kind # "table"
    THEN Outcome(obj, calls, <<QueriesNotice>>, NoResult)
    ELSE LET rising_df == RenameColumns(rising.table, QueryRisingNames)
             top_df == RenameColumns(top.table, QueryTopNames)
         IN  Outcome(obj, calls, <<>>, Table(ConcatColumns(top_df, rising_df)))

\* the override is stored on the session before the request
relatedQueriesStoresCategory(obj, category, reply) ==
    LET calls == <<[method |-> "related_queries"]>>
        stored == [obj EXCEPT !.category = category]
    IN  IF ~reply.ok THEN Outcome(stored, calls, <<>>, Raise(reply.err))
        ELSE IF obj.keyword_list = <<>>
        THEN Outcome(stored, calls, <<>>, Raise("IndexError"))
        ELSE IF obj.keyword_list[1] \notin DOMAIN reply.value
        THEN Outcome(stored, calls, <<>>, Raise("KeyError"))
        ELSE LET found == reply.value[obj.keyword_list[1]]
             IN  IF "rising" \notin DOMAIN found \/ "top" \notin DOMAIN found
                 THEN Outcome(stored, calls, <<>>, Raise("KeyError"))
                 ELSE ComposeQueries(stored, calls, found["rising"], found["top"])

\* the override is forwarded to the client with the request
relatedQueriesForwardsCategory(obj, category, reply) ==
    LET calls == <<[method |-> "related_queries", cat |-> category]>>
    IN  IF ~reply.ok THEN Outcome(obj, calls, <<>>, Raise(reply.err))
        ELSE IF obj.keyword_list = <<>>
        THEN Outcome(obj, calls, <<>>, Raise("IndexError"))
        ELSE IF obj.keyword_list[1] \notin DOMAIN reply.value
        THEN Outcome(obj, calls, <<>>, Raise("KeyError"))
        ELSE LET found == reply.value[obj.keyword_list[1]]
             IN  IF "rising" \notin DOMAIN found \/ "top" \notin DOMAIN found
                 THEN Outcome(obj, calls, <<>>, Raise("KeyError"))
                 ELSE ComposeQueries(obj, calls, found["rising"], found["top"])

relatedQueries(obj, category, reply) ==
    LET calls == <<[method |-> "related_queries"]>>
    IN  IF ~reply.ok THEN Outcome(obj, calls, <<>>, Raise(reply.err))
        ELSE IF obj.keyword_list = <<>>
        THEN Outcome(obj, calls, <<>>, Raise("IndexError"))
        ELSE IF obj.keyword_list[1] \notin DOMAIN reply.value
        THEN Outcome(obj, calls, <<>>, Raise("KeyError"))
        ELSE LET found == reply.value[obj.keyword_list[1]]
             IN  IF "rising" \notin DOMAIN found \/ "top" \notin DOMAIN found
                 THEN Outcome(obj, calls, <<>>, Raise("KeyError"))
                 ELSE ComposeQueries(obj, calls, found["rising"], found["top"])

trendingSearches(obj, country, reply) ==
    LET calls == <<[method |-> "trending_searches", pn |-> country]>>
    IN  IF ~reply.ok THEN Outcome(obj, calls, <<>>, Raise(reply.err))
        ELSE IF check_if_valid_data(reply.value)
        THEN Outcome(obj, calls, <<>>, Table(reply.value))
        ELSE Outcome(obj, calls, <<EmptyNotice>>, NoResult)

topCharts(obj, year, reply) ==
    LET calls == <<[method |-> "top_charts", date |-> year, geo |-> obj.geo]>>
    IN  IF ~reply.ok THEN Outcome(obj, calls, <<>>, Raise(reply.err))
        ELSE IF check_if_valid_data(reply.value)
        THEN Outcome(obj, calls, <<>>, Table(reply.value))
        ELSE Outcome(obj, calls, <<EmptyNotice>>, NoResult)

\* a suggestion record is a sequence of fields [k |-> name, v |-> value]
RecordKeys(rec) == [i \in 1..Len(rec) |-> rec[i].k]

\* the keys of the records, each once, in the order they first appear
RECURSIVE KeysInOrder(_)
KeysInOrder(records) ==
    IF records = <<>> THEN <<>>
    ELSE LET n == Len(records)
             init == KeysInOrder(SubSeq(records, 1, n - 1))
         IN  IndexUnion(init, RecordKeys(records[n]))

FieldOf(rec, key) ==
    IF key \in Range(RecordKeys(rec))
    THEN rec[CHOOSE i \in 1..Len(rec) : rec[i].k = key].v
    ELSE NaN

\* pd.DataFrame.from_dict(records): one row per record, one column per key
FromRecords(records) ==
    LET columns == KeysInOrder(records)
    IN  Frame(RangeIndex(Len(records)), columns,
              [j \in 1..Len(columns) |->
                  [i \in 1..Len(records) |-> FieldOf(records[i], columns[j])]])

suggestions(obj, reply) ==
    IF obj.keyword_list = <<>> THEN Outcome(obj, <<>>, <<>>, Raise("IndexError"))
    ELSE
    LET calls == <<[method |-> "suggestions", keyword |-> obj.keyword_list[1]]>>
    IN  IF ~reply.ok THEN Outcome(obj, calls, <<>>, Raise(reply.err))
        ELSE LET frame == FromRecords(reply.value)
             IN  IF DropFails(frame, {"mid"})
                 THEN Outcome(obj, calls, <<>>, Raise("KeyError"))
                 ELSE LET suggestions_df == DropColumns(frame, {"mid"})
                      IN  IF check_if_valid_data(suggestions_df)
                          THEN Outcome(obj, calls, <<>>, Table(suggestions_df))
                          ELSE Outcome(obj, calls, <<EmptyNotice>>, NoResult)

categories(obj, reply) ==
    LET calls == <<[method |-> "categories"]>>
    IN  IF ~reply.ok THEN Outcome(obj, calls, <<>>, Raise(reply.err))
        ELSE Outcome(obj, calls, <<>>, Passthrough(reply.value))

----------------------------------------------------------------------------
(* The arguments callers pass and the replies the client gives *)

Errors == {"ResponseError", "ConnectionError"}

Failures == {Failed(e) : e \in Errors}

\* stands for the reply to a call the operation never got to issue
NotAsked == [ok |-> FALSE, err |-> "not asked"]

\* the replies the operation consumed, in the order of its calls
Asked(replies) == SelectSeq(replies, LAMBDA r : r # NotAsked)

Keywords == {"pizza", "datetime", "geoName"}

KeywordLists == {<<>>, <<"pizza">>, <<"datetime", "geoName">>}

Timeframes == {"today 5-y"}
Geos == {"US"}
Languages == {"en-US"}
Categories == {DefaultCategory, 71}
Gprops == {""}

\* the characters of a date string
Date(y, m, d) == y \o <<"-">> \o m \o <<"-">> \o d

Jan1 == Date(<<"2", "0", "2", "3">>, <<"0", "1">>, <<"0", "1">>)
Jan2 == Date(<<"2", "0", "2", "3">>, <<"0", "1">>, <<"0", "2">>)
Dec31 == Date(<<"1", "9", "9", "9">>, <<"1", "2">>, <<"3", "1">>)
Feb29 == Date(<<"2", "0", "2", "4">>, <<"0", "2">>, <<"2", "9">>)
Oct9 == Date(<<"2", "0", "2", "4">>, <<"1", "0">>, <<"0", "9">>)
\* not of the form YYYY-MM-DD: the day is missing
NoDay == <<"2", "0", "2", "3", "-", "0", "1">>

\* <<start_date, end_date>>
DateRanges ==
    {<<Jan1, Jan2>>, <<Dec31, Jan1>>, <<Feb29, Oct9>>, <<NoDay, Jan2>>, <<Jan1, NoDay>>}

\* <<hour_start, hour_end>>: the defaults, and an explicit range
HourRanges == {<<DefaultHourStart, DefaultHourEnd>>, <<5, 23>>}

\* <<region, inc_low_vol, inc_geo_code>>: the flags' defaults, and both flipped
RegionArgs == {<<"COUNTRY", FALSE, TRUE>>, <<"CITY", TRUE, FALSE>>}

Countries == {"united_states", "brazil"}

Years == {2019, 201912}

\* a raw table indexed by row keys: the cell of row key k in column j is k + j,
\* so that no two cells of a table are equal
RawTable(index, columns) ==
    Frame(index, columns,
          [j \in 1..Len(columns) |-> [i \in 1..Len(index) |-> index[i] + j]])

RawKeys == {10 * k : k \in 1..MaxRows}

RawIndexes == UNION {InjSeqs(RawKeys, n) : n \in 0..MaxRows}

\* the columns of a raw interest table: the keywords, then the client's own
RawLayouts == {<<"pizza", "isPartial">>, <<"datetime", "geoName">>}

RawTables ==
    {EmptyFrame} \cup {RawTable(index, columns) : index \in RawIndexes, columns \in RawLayouts}

ConnectReplies == Failures \cup {Returned("client")}

BuildReplies == Failures \cup {Returned("payload")}

\* get_historical_interest returns a table the method never reads
FetchReplies == Failures \cup {Returned(EmptyFrame)}

InterestReplies == Failures \cup {Returned(df) : df \in RawTables}

\* a table numbered 0..n-1 whose cell in row i, column j is base + 10 i + j
NumberedTable(columns, n, base) ==
    Frame(RangeIndex(n), columns,
          [j \in 1..Len(columns) |-> [i \in 1..n |-> base + 10 * i + j]])

TrendingReplies ==
    Failures \cup {Returned(EmptyFrame)}
             \cup {Returned(NumberedTable(<<"0">>, n, 0)) : n \in 0..MaxRows}

ChartReplies ==
    Failures \cup {Returned(EmptyFrame)}
             \cup {Returned(NumberedTable(<<"title", "exploreQuery">>, n, 0)) : n \in 0..MaxRows}

TopicColumns ==
    <<"value", "formattedValue", "hasData", "link", "topic_mid", "topic_title", "topic_type">>

QueryColumns == <<"query", "value">>

\* what the client may hold under "rising" or "top": None, a table without
\* columns, or a table of n rows with the columns of its kind
NoTable == [kind |-> "none"]

RelatedEntries(columns, base) ==
    {NoTable, Table(EmptyFrame)}
        \cup {Table(NumberedTable(columns, n, base)) : n \in 0..MaxRelated}

\* the client's answer for one keyword: "rising" and "top" each present or not
RelatedAnswers(columns) ==
    {[rising |-> r, top |-> t] :
        r \in RelatedEntries(columns, 200), t \in RelatedEntries(columns, 100)}
    \cup {[rising |-> r] : r \in RelatedEntries(columns, 200)}
    \cup {[top |-> t] : t \in RelatedEntries(columns, 100)}
    \cup {<<>>}

\* the mapping the client returns: the same answer under every keyword, or
\* no keyword at all
RelatedReplies(columns) ==
    Failures \cup {Returned(<<>>)}
             \cup {Returned([k \in Keywords |-> a]) : a \in RelatedAnswers(columns)}

\* suggestion records, with and without the "mid" field
SuggestionRecord(i, withMid) ==
    IF withMid
    THEN <<[k |-> "mid", v |-> 10 * i + 1], [k |-> "title", v |-> 10 * i + 2],
           [k |-> "type", v |-> 10 * i + 3]>>
    ELSE <<[k |-> "title", v |-> 10 * i + 2], [k |-> "type", v |-> 10 * i + 3]>>

SuggestionLists ==
    UNION {{[i \in 1..n |-> SuggestionRecord(i, m[i])] : m \in [1..n -> BOOLEAN]} :
           n \in 0..MaxRecords}

TopicReplies == RelatedReplies(TopicColumns)

QueryReplies == RelatedReplies(QueryColumns)

SuggestionReplies == Failures \cup {Returned(l) : l \in SuggestionLists}

CategoryReplies == Failures \cup {Returned("taxonomy")}

----------------------------------------------------------------------------
(* The state machine: a caller constructs a session and calls its methods *)

NoSession == [absent |-> TRUE]

Init ==
    /\ pc = "new"
    /\ given = NoSession
    /\ self = NoSession
    /\ last = [op |-> "none", args |-> <<>>, replies |-> <<>>, calls |-> <<>>,
               out |-> <<>>, result |-> NoResult]

\* a method call on the live session: the whole method runs
Invoke(op, args, replies, o) ==
    /\ self' = o.obj
    /\ last' = [op |-> op, args |-> args, replies |-> Asked(replies),
                calls |-> o.calls, out |-> o.out, result |-> o.result]
    /\ UNCHANGED <<pc, given>>

New ==
    /\ pc = "new"
    /\ \E kw \in KeywordLists, tf \in Timeframes, geo \in Geos, hl \in Languages,
          cat \in Categories, gprop \in Gprops :
       \E connected \in ConnectReplies :
       \E built \in IF connected.ok THEN BuildReplies ELSE {NotAsked} :
          LET o == Construct(kw, tf, geo, hl, cat, gprop, connected, built)
          IN  /\ pc' = IF o.result.kind = "raise" THEN "failed" ELSE "live"
              /\ given' = [keyword_list |-> kw, timeframe |-> tf, geo |-> geo,
                           host_language |-> hl, gprop |-> gprop, category |-> cat]
              /\ self' = IF o.result.kind = "raise" THEN NoSession ELSE o.obj
              /\ last' = [op |-> "__init__", args |-> given',
                          replies |-> Asked(<<connected, built>>), calls |-> o.calls,
                          out |-> o.out, result |-> o.result]

InterestOverTime ==
    /\ pc = "live"
    /\ \E reply \in InterestReplies :
          Invoke("interestOverTime", <<>>, <<reply>>, interestOverTime(self, reply))

HistoricalHourlyInterest ==
    /\ pc = "live"
    /\ \E dates \in DateRanges, hours \in HourRanges :
       LET start_date == dates[1]
           end_date == dates[2]
           parses == DateParses(start_date) /\ DateParses(end_date) IN
       \E fetched \in IF parses THEN FetchReplies ELSE {NotAsked} :
       \E reply \in IF fetched.ok THEN InterestReplies ELSE {NotAsked} :
          Invoke("historicalHourlyInterest",
                 [start_date |-> start_date, end_date |-> end_date,
                  hour_start |-> hours[1], hour_end |-> hours[2]],
                 <<fetched, reply>>,
                 historicalHourlyInterest(self, start_date, end_date, hours[1],
                                          hours[2], fetched, reply))

InterestByRegion ==
    /\ pc = "live"
    /\ \E a \in RegionArgs, reply \in InterestReplies :
          Invoke("interestByRegion",
                 [region |-> a[1], inc_low_vol |-> a[2], inc_geo_code |-> a[3]],
                 <<reply>>,
                 interestByRegion(self, a[1], a[2], a[3], reply))

RelatedTopics ==
    /\ pc = "live"
    /\ \E reply \in TopicReplies :
          Invoke("relatedTopics", <<>>, <<reply>>, relatedTopics(self, reply))

RelatedQueries ==
    /\ pc = "live"
    /\ \E category \in Categories, reply \in QueryReplies :
          Invoke("relatedQueries", [category |-> category], <<reply>>,
                 relatedQueries(self, category, reply))

TrendingSearches ==
    /\ pc = "live"
    /\ \E country \in Countries, reply \in TrendingReplies :
          Invoke("trendingSearches", [country |-> country], <<reply>>,
                 trendingSearches(self, country, reply))

TopCharts ==
    /\ pc = "live"
    /\ \E year \in Years, reply \in ChartReplies :
          Invoke("topCharts", [year |-> year], <<reply>>, topCharts(self, year, reply))

Suggestions ==
    /\ pc = "live"
    /\ \E reply \in IF self.keyword_list = <<>> THEN {NotAsked} ELSE SuggestionReplies :
          Invoke("suggestions", <<>>, <<reply>>, suggestions(self, reply))

GetCategories ==
    /\ pc = "live"
    /\ \E reply \in CategoryReplies :
          Invoke("categories", <<>>, <<reply>>, categories(self, reply))

Next ==
    \/ New
    \/ InterestOverTime
    \/ HistoricalHourlyInterest
    \/ InterestByRegion
    \/ RelatedTopics
    \/ RelatedQueries
    \/ TrendingSearches
    \/ TopCharts
    \/ Suggestions
    \/ GetCategories

Spec == Init /\ [][Next]_vars

----------------------------------------------------------------------------
(* The claims.  Each is about the state just after an operation: `last`    *)
(* holds what the operation was given and what it did.                     *)

\* every call the operation makes was answered, and answered without error
Answered ==
    /\ Len(last.replies) = (IF last.op \in {"historicalHourlyInterest", "__init__"} THEN 2 ELSE 1)
    /\ \A i \in 1..Len(last.replies) : last.replies[i].ok

\* the raw response the operation reshapes: the value of its last reply
Raw == last.replies[Len(last.replies)].value

Max(a, b) == IF a >= b THEN a ELSE b

NoDuplicates(s) == \A i, j \in 1..Len(s) : s[i] = s[j] => i = j

\* cells, cut or filled with NaN to n rows
Padded(cells, n) == [i \in 1..n |-> IF i <= Len(cells) THEN cells[i] ELSE NaN]

(* C1 *)
ValidatedOps ==
    {"interestOverTime", "historicalHourlyInterest", "interestByRegion",
     "trendingSearches", "topCharts"}

\* the operation got an answer with zero rows (tables) or zero records (suggestions)
EmptyResponse ==
    /\ last.op \in ValidatedOps \cup {"suggestions"}
    /\ Answered
    /\ IF last.op = "suggestions" THEN Len(Raw) = 0 ELSE NRows(Raw) = 0

\* C1: for interestOverTime, historicalHourlyInterest, interestByRegion,
\* trendingSearches, topCharts and suggestions, an empty raw response makes the
\* operation print the diagnostic notice and return the no-result value; it
\* neither raises nor returns a table.
C1_EmptyResponseGivesNoResult ==
    EmptyResponse => last.out = <<EmptyNotice>> /\ last.result = NoResult

(* C2 *)
\* the answer for the primary keyword, when the client gave one
HasPrimaryAnswer ==
    /\ last.op \in {"relatedTopics", "relatedQueries"}
    /\ Answered
    /\ self.keyword_list # <<>>
    /\ self.keyword_list[1] \in DOMAIN Raw

PrimaryAnswer == Raw[self.keyword_list[1]]

LacksEntry(answer, key) ==
    key \notin DOMAIN answer \/ answer[key].kind # "table"

\* C2: when the answer for the primary keyword lacks "rising" or "top" (key
\* missing, or value not a table), relatedTopics / relatedQueries print their
\* notice and return the no-result value; no exception reaches the caller.
C2_MissingEntryGivesNoResult ==
    (HasPrimaryAnswer /\ (LacksEntry(PrimaryAnswer, "rising") \/ LacksEntry(PrimaryAnswer, "top")))
        => /\ last.out = <<IF last.op = "relatedTopics" THEN TopicsNotice ELSE QueriesNotice>>
           /\ last.result = NoResult

(* C3 *)
SuffixedColumns == {"value", "formattedValue", "hasData", "topic_title", "topic_type"}

WellFormedTopics(answer, key) ==
    /\ key \in DOMAIN answer
    /\ answer[key].kind = "table"
    /\ answer[key].table.columns = TopicColumns

TopicsCase ==
    /\ last.op = "relatedTopics"
    /\ HasPrimaryAnswer
    /\ WellFormedTopics(PrimaryAnswer, "top")
    /\ WellFormedTopics(PrimaryAnswer, "rising")

\* C3: relatedTopics, given well-formed top (T rows) and rising (R rows) tables,
\* returns a table of max(T, R) rows in which value, formattedValue, hasData,
\* topic_title and topic_type of both inputs appear under names suffixed _top
\* and _rising, no two columns share a name, and "link" and "topic_mid" are gone.
C3_TopicsComposed ==
    TopicsCase =>
        LET top == PrimaryAnswer["top"].table
            rising == PrimaryAnswer["rising"].table
            rows == Max(NRows(top), NRows(rising))
        IN  /\ last.result.kind = "table"
            /\ LET df == last.result.table
               IN  /\ NRows(df) = rows
                   /\ NoDuplicates(df.columns)
                   /\ "link" \notin Range(df.columns)
                   /\ "topic_mid" \notin Range(df.columns)
                   /\ \A c \in SuffixedColumns :
                        /\ c \o "_top" \in Range(df.columns)
                        /\ c \o "_rising" \in Range(df.columns)
                        /\ Column(df, c \o "_top") = Padded(Column(top, c), rows)
                        /\ Column(df, c \o "_rising") = Padded(Column(rising, c), rows)

\* relatedTopics composed a shorter top table with a longer rising table
C3_Witness ==
    /\ TopicsCase
    /\ NRows(PrimaryAnswer["top"].table) = 1
    /\ NRows(PrimaryAnswer["rising"].table) = 2
    /\ last.result.kind = "table"

(* C4 *)
PromotingOps == {"interestOverTime", "historicalHourlyInterest", "interestByRegion"}

KeyColumn == IF last.op = "interestByRegion" THEN "geoName" ELSE "datetime"

PromotionCase == last.op \in PromotingOps /\ Answered /\ ~IsEmpty(Raw)

C5_SuggestionsNeverRaise ==
    (last.op = "suggestions" /\ Answered) =>
        /\ last.result.kind # "raise"
        /\ last.result.kind = "table" =>
             LET df == last.result.table
             IN  /\ "mid" \notin Range(df.columns)
                 /\ \A i \in 1..Len(Raw) : \A f \in 1..Len(Raw[i]) :
                      Raw[i][f].k # "mid" =>
                          /\ Raw[i][f].k \in Range(df.columns)
                          /\ Column(df, Raw[i][f].k)[i] = Raw[i][f].v

(* C6 *)
\* C6: constructing a session with an empty keyword list ends in an error before
\* any build_payload request reaches the client, and produces no session.
C6_EmptyKeywordListFailsFast ==
    (last.op = "__init__" /\ last.args.keyword_list = <<>>) =>
        /\ pc = "failed"
        /\ \A i \in 1..Len(last.calls) : last.calls[i].method # "build_payload"

(* C7 *)
\* a string of the form YYYY-MM-DD
IsIsoDate(date) ==
    /\ Len(date) = 10
    /\ date[5] = "-" /\ date[8] = "-"
    /\ \A i \in {1, 2, 3, 4, 6, 7, 9, 10} : IsDigit(date[i])

YearOf(date) ==
    1000 * DigitValue(date[1]) + 100 * DigitValue(date[2])
        + 10 * DigitValue(date[3]) + DigitValue(date[4])
MonthOf(date) == 10 * DigitValue(date[6]) + DigitValue(date[7])
DayOf(date) == 10 * DigitValue(date[9]) + DigitValue(date[10])

HistoricalCase ==
    /\ last.op = "historicalHourlyInterest"
    /\ IsIsoDate(last.args.start_date)
    /\ IsIsoDate(last.args.end_date)

\* C7: for start_date and end_date of the form YYYY-MM-DD, the client's
\* get_historical_interest request carries the year, month and day of each as
\* integers, the given hours, the session's keyword list, category, geo and
\* search property, and an inter-request delay of 0.
C7_HistoricalRequest ==
    HistoricalCase =>
        /\ last.calls # <<>>
        /\ last.calls[1] =
             [method |-> "get_historical_interest",
              keywords |-> self.keyword_list,
              year_start |-> YearOf(last.args.start_date),
              month_start |-> MonthOf(last.args.start_date),
              day_start |-> DayOf(last.args.start_date),
              hour_start |-> last.args.hour_start,
              year_end |-> YearOf(last.args.end_date),
              month_end |-> MonthOf(last.args.end_date),
              day_end |-> DayOf(last.args.end_date),
              hour_end |-> last.args.hour_end,
              cat |-> self.category, geo |-> self.geo, gprop |-> self.gprop,
              sleep |-> 0]

\* "2023-01-01" to "2023-01-02" with the default hours went out as 2023, 1, 1
\* and 2023, 1, 2
C7_Witness ==
    /\ HistoricalCase
    /\ last.args.start_date = Jan1 /\ last.args.end_date = Jan2
    /\ last.args.hour_start = 0 /\ last.args.hour_end = 1
    /\ last.calls # <<>>
    /\ last.calls[1].year_start = 2023 /\ last.calls[1].month_start = 1
    /\ last.calls[1].day_start = 1 /\ last.calls[1].day_end = 2

(* C8 *)
\* C8: after any sequence of operations the session's keyword list, timeframe,
\* geography code, host language, category and search-property filter are the
\* values given at construction, and the primary keyword is still the first
\* keyword of that list.
C8_ConfigUnchanged ==
    pc = "live" =>
        /\ self.keyword_list = given.keyword_list
        /\ self.timeframe = given.timeframe
        /\ self.geo = given.geo
        /\ self.host_language = given.host_language
        /\ self.category = given.category
        /\ self.gprop = given.gprop
        /\ given.keyword_list # <<>> => self.keyword_list[1] = given.keyword_list[1]

\* relatedQueries ran with a category other than the session's
C8_Witness ==
    /\ pc = "live"
    /\ last.op = "relatedQueries"
    /\ last.args.category # given.category

(* C9 *)
\* C9: when a call into the client fails, the operation lets that same error
\* reach the caller: no no-result value, no notice, and no second call.
C9_ClientErrorsPropagate ==
    \A i \in 1..Len(last.replies) :
        ~last.replies[i].ok =>
            /\ last.result = Raise(last.replies[i].err)
            /\ last.out = <<>>
            /\ i = Len(last.replies)
            /\ Len(last.calls) = Len(last.replies)
            /\ \A a, b \in 1..Len(last.calls) :
                 last.calls[a].method = last.calls[b].method => a = b

\* the client's related_topics call failed and relatedTopics raised its error
C9_Witness ==
    /\ last.op = "relatedTopics"
    /\ last.replies = <<Failed("ConnectionError")>>
    /\ last.result = Raise("ConnectionError")

(* C10 *)
\* C10: the category override of relatedQueries is a no-op: whatever category
\* is passed, the client call is related_queries with no category argument,
\* the result is the same, and the session's stored category is unchanged.
C10_CategoryOverrideIgnored ==
    (pc = "live" /\ last.op = "relatedQueries") =>
        /\ last.calls = <<[method |-> "related_queries"]>>
        /\ self.category = given.category
        /\ \A c \in Categories :
             relatedQueries(self, c, last.replies[1]) =
                 Outcome(self, last.calls, last.out, last.result)

\* relatedQueries was called with an override, different from the session's
\* category, and returned a table
C10_Witness ==
    /\ pc = "live"
    /\ last.op = "relatedQueries"
    /\ last.args.category # DefaultCategory
    /\ last.args.category # self.category
    /\ last.result.kind = "table"

====
